---- MODULE Spec2Model ----
(***************************************************************************)
(* A model of package miner (src/miner/miner.go): chunks linked by parent  *)
(* pointers, the proof-of-work search Mine, the nonce test ValidatePoW,    *)
(* the content hash GenerateHash over the JSON encoding, and the validity  *)
(* query IsValid.                                                          *)
(*                                                                         *)
(* A chunk pointer is an index into the sequence chunks; 0 is nil.         *)
(* A []byte is a tuple, <<>> being nil.  SHA-256 over the JSON encoding is *)
(* taken to be collision-free: the digest of an encoding is the encoding   *)
(* itself, tagged.  SHA-256 over the decimal nonce strings is the real     *)
(* function, tabulated by the number of leading "0" characters of its hex  *)
(* rendering.                                                              *)
(***************************************************************************)
EXTENDS Naturals, Sequences, FiniteSets, TLC

(* Bounds of the model. *)
MaxChunks == 2

MaxWrites == 1

MaxNonce == 9

(* hex.EncodeToString of a SHA-256 sum has 64 characters. *)
DigestHexLen == 64

(***************************************************************************)
(* The inputs drawn for New and for direct writes of the exported fields.  *)
(* A difficulty is 0, 1 or one more than the digest has hex characters.    *)
(* A payload is a Go string, a sequence of bytes: "\xff" for New, "a" and  *)
(* "\xfe" for later writes.  time.Now() is one instant.  A written nonce   *)
(* is 0, 5 (sha256("05") starts with "c") or 57 (sha256("057") starts with *)
(* "0", and so does sha256("570")).                                        *)
(***************************************************************************)
Difficulties == {0, 1, DigestHexLen + 1}

NewData == {<<255>>}

DataValues == {<<97>>, <<255>>, <<254>>}

NowValues == {1}

TimeValues == {1, 2}

IndexValues == {0, 1, 2}

PoWValues == {0, 5, 57}

(***************************************************************************)
(* The decimal strings s of at most four digits that arise as              *)
(* strconv.Itoa(p) + strconv.Itoa(n) for p, n in 0..99 and whose           *)
(* hex(sha256(s)) starts with at least 1, 2, 3 characters "0".  No such    *)
(* string has four leading zeros.                                          *)
(***************************************************************************)
ZeroPrefix1 ==
  {
    "03", "39", "49", "51", "55", "057", "063", "089", "109", "125", "146",
    "149", "152", "156", "178", "211", "216", "225", "229", "235", "245",
    "286", "290", "305", "327", "329", "331", "334", "342", "344", "348",
    "351", "354", "356", "367", "374", "394", "399", "425", "431", "437",
    "439", "445", "463", "471", "500", "519", "520", "549", "559", "561",
    "570", "584", "610", "636", "664", "671", "683", "719", "722", "723",
    "743", "748", "766", "771", "774", "780", "791", "801", "809", "860",
    "871", "886", "962", "975", "1038", "1039", "1040", "1047", "1049",
    "1055", "1063", "1064", "1068", "1085", "1086", "1110", "1111", "1146",
    "1150", "1154", "1172", "1173", "1181", "1224", "1234", "1287", "1289",
    "1318", "1328", "1330", "1353", "1370", "1391", "1392", "1415", "1418",
    "1438", "1467", "1498", "1511", "1538", "1547", "1562", "1567", "1587",
    "1631", "1665", "1680", "1731", "1740", "1744", "1748", "1772", "1825",
    "1885", "1897", "1932", "1945", "1948", "1956", "1972", "1980", "1997",
    "2019", "2043", "2070", "2120", "2127", "2189", "2212", "2221", "2229",
    "2243", "2254", "2296", "2312", "2315", "2330", "2343", "2355", "2356",
    "2379", "2384", "2398", "2416", "2440", "2442", "2490", "2498", "2511",
    "2518", "2519", "2530", "2537", "2555", "2557", "2566", "2633", "2650",
    "2665", "2671", "2714", "2726", "2736", "2739", "2771", "2783", "2796",
    "2891", "2896", "2913", "2921", "2931", "2942", "2950", "2966", "2973",
    "2983", "2984", "2988", "2993", "2999", "3019", "3024", "3027", "3034",
    "3059", "3084", "3148", "3157", "3212", "3237", "3253", "3324", "3335",
    "3340", "3363", "3366", "3376", "3417", "3419", "3425", "3431", "3462",
    "3464", "3482", "3485", "3487", "3525", "3534", "3554", "3587", "3627",
    "3628", "3633", "3638", "3651", "3660", "3664", "3683", "3686", "3692",
    "3694", "3696", "3711", "3729", "3736", "3755", "3823", "3824", "3839",
    "3841", "3842", "3844", "3867", "3870", "3894", "3899", "3911", "3947",
    "3954", "3958", "3960", "3969", "3996", "3998", "4011", "4032", "4061",
    "4064", "4076", "4091", "4112", "4118", "4165", "4210", "4215", "4242",
    "4271", "4276", "4392", "4410", "4424", "4452", "4471", "4512", "4532",
    "4539", "4541", "4564", "4565", "4566", "4569", "4579", "4580", "4614",
    "4626", "4667", "4672", "4681", "4742", "4755", "4765", "4777", "4826",
    "4843", "4852", "4858", "4871", "4886", "4910", "4913", "4959", "4989",
    "5011", "5029", "5059", "5065", "5087", "5089", "5117", "5127", "5187",
    "5194", "5220", "5225", "5251", "5258", "5272", "5283", "5313", "5324",
    "5338", "5339", "5352", "5372", "5383", "5386", "5430", "5470", "5481",
    "5482", "5553", "5567", "5572", "5574", "5636", "5642", "5656", "5676",
    "5724", "5728", "5785", "5810", "5815", "5818", "5835", "5842", "5848",
    "5871", "5911", "5937", "5944", "5966", "5977", "5980", "6016", "6056",
    "6060", "6061", "6065", "6090", "6115", "6129", "6144", "6150", "6151",
    "6160", "6167", "6177", "6233", "6276", "6283", "6293", "6392", "6463",
    "6465", "6489", "6499", "6522", "6537", "6543", "6548", "6565", "6566",
    "6572", "6575", "6583", "6598", "6623", "6656", "6661", "6662", "6665",
    "6667", "6713", "6717", "6726", "6730", "6751", "6759", "6763", "6769",
    "6773", "6776", "6777", "6779", "6793", "6819", "6823", "6842", "6865",
    "6869", "6877", "6880", "6889", "6890", "6916", "6932", "6939", "6955",
    "6984", "7026", "7034", "7058", "7066", "7076", "7110", "7144", "7150",
    "7159", "7167", "7189", "7192", "7198", "7222", "7223", "7244", "7315",
    "7384", "7413", "7416", "7447", "7452", "7477", "7480", "7527", "7546",
    "7548", "7553", "7583", "7589", "7595", "7597", "7614", "7615", "7637",
    "7670", "7695", "7721", "7744", "7755", "7766", "7768", "7795", "7810",
    "7815", "7821", "7824", "7876", "7893", "7949", "8015", "8022", "8087",
    "8115", "8129", "8151", "8152", "8157", "8161", "8184", "8196", "8231",
    "8242", "8243", "8253", "8256", "8258", "8261", "8268", "8296", "8346",
    "8362", "8391", "8433", "8445", "8462", "8464", "8467", "8476", "8488",
    "8494", "8516", "8522", "8529", "8536", "8552", "8554", "8555", "8558",
    "8568", "8586", "8597", "8613", "8623", "8655", "8675", "8687", "8715",
    "8723", "8730", "8731", "8761", "8762", "8771", "8777", "8819", "8828",
    "8838", "8847", "8848", "8863", "8889", "8925", "8929", "8948", "8981",
    "8989", "8992", "9021", "9036", "9046", "9120", "9123", "9176", "9199",
    "9215", "9273", "9277", "9283", "9289", "9349", "9351", "9358", "9380",
    "9396", "9438", "9440", "9445", "9463", "9484", "9487", "9519", "9539",
    "9542", "9548", "9549", "9570", "9573", "9584", "9622", "9624", "9641",
    "9659", "9662", "9668", "9686", "9691", "9695", "9716", "9720", "9728",
    "9733", "9756", "9762", "9777", "9789", "9790", "9813", "9838", "9870",
    "9919", "9940", "9968", "9982"
  }

ZeroPrefix2 ==
  {
    "286", "671", "886", "1039", "1064", "1467", "2518", "2566", "2650",
    "2726", "2984", "3525", "3627", "3633", "4076", "4091", "4541", "5848",
    "6056", "6150", "6167", "6726", "6759", "6889", "6890", "6955", "7058",
    "7198", "7615", "7824", "8536", "8554", "9487", "9919", "9940"
  }

ZeroPrefix3 ==
  {
    "886", "1039", "3633", "5848"
  }

VARIABLES chunks, pc, cur, pow, call, writes, life

vars == <<chunks, pc, cur, pow, call, writes, life>>

(***************************************************************************)
(* chunks : the Chunk values allocated so far, chunks[i] being *Chunk i.   *)
(* pc     : "idle" between calls, "mine" inside Mine's loop, "panic" once  *)
(*          a run-time panic has ended the program.                        *)
(* cur    : the receiver of the Mine call in progress (0: none).           *)
(* pow    : Mine's named result, the candidate nonce.                      *)
(* call   : the Mine or GenerateHash call that has just returned, with the *)
(*          value it returned.                                             *)
(* writes : the number of direct writes of exported fields made so far.    *)
(* life   : history, read by no guard: per chunk, whether Mine has ever    *)
(*          returned on it (once), whether PoW holds the nonce stored by   *)
(*          Mine (mined), and whether GenerateHash(true)                   *)
(*          has run with no field of the chunk or of its parent assigned   *)
(*          since, by Mine, GenerateHash(true) or a direct write (hashed), *)
(*          and whether IsValid returned true for the chunk as that call   *)
(*          left it, no field of the chunk assigned since (valid).         *)
(***************************************************************************)

Ids == 1..Len(chunks)

NoCall == [op |-> "none", ck |-> 0, save |-> FALSE, sum |-> <<>>, pow |-> 0]

(* new(Chunk): the zero value of the struct. *)
ZeroChunk ==
  [Parent |-> 0, Hash |-> <<>>, Index |-> 0, PoW |-> 0, Difficulty |-> 0,
   Data |-> <<>>, Timestamp |-> 0]

IsGenesis(ck) == ck.Parent = 0

GetParent(ck) == IF IsGenesis(ck) THEN ZeroChunk ELSE chunks[ck.Parent]

(* strconv.Itoa on a non-negative int. *)
Digit == <<"0", "1", "2", "3", "4", "5", "6", "7", "8", "9">>

RECURSIVE Itoa(_)
Itoa(n) == IF n < 10 THEN Digit[n + 1] ELSE Itoa(n \div 10) \o Digit[(n % 10) + 1]

(* The number of leading "0" characters of hex(sha256(s)). *)
LeadingZeros(s) ==
  IF s \in ZeroPrefix3 THEN 3
  ELSE IF s \in ZeroPrefix2 THEN 2
  ELSE IF s \in ZeroPrefix1 THEN 1
  ELSE 0

(* sum[:k] for the hex rendering sum of sha256(s), k within its length:   *)
(* the model keeps the leading zeros of the digest; "x" stands for any     *)
(* other character.                                                        *)
HexPrefix(s, k) == [i \in 1..k |-> IF i <= LeadingZeros(s) THEN "0" ELSE "x"]

(* fmt.Sprintf("%0*d", dif, 0) for dif >= 0: the digits of 0, zero-padded  *)
(* on the left up to width dif.  The digit "0" is written whatever dif is. *)
Pad(dif) ==
  LET digits == <<"0">>
  IN  IF Len(digits) >= dif THEN digits
      ELSE [i \in 1..(dif - Len(digits)) |-> "0"] \o digits

(* sum[:dif] panics (slice bounds out of range) when dif > len(sum). *)
ValidatePoWPanics(ck) == ck.Difficulty > DigestHexLen

(* The value ValidatePoW returns when it does not panic. *)
ValidatePoW(ck, n) ==
  LET c   == Itoa(GetParent(ck).PoW) \o Itoa(n)
      dif == ck.Difficulty
      pad == Pad(dif)
  IN  /\ dif <= DigestHexLen
      /\ HexPrefix(c, dif) = pad

IsValidPoW(ck) == ValidatePoW(ck, ck.PoW)

IsMined(ck) == ck.PoW > 0

(* encoding/json on a []byte: null for nil, else the base64 string. *)
JSONBytes(b) == IF b = <<>> THEN <<"null">> ELSE <<"base64", b>>

(* encoding/json on a string: the bytes coerced to valid UTF-8, each       *)
(* invalid byte replaced by U+FFFD.  The data of the model are ASCII bytes *)
(* and lone bytes >= 0x80, which are invalid sequences by themselves.      *)
JSONString(s) == [i \in 1..Len(s) |-> IF s[i] < 128 THEN s[i] ELSE 65533]

(* time.Time's MarshalJSON: the RFC 3339 rendering of the instant. *)
JSONTime(t) == Itoa(t)

(* MarshalJSON, parent_hash left out. *)
MarshalJSONAlias(ck) ==
  <<JSONBytes(<<>>), JSONBytes(ck.Hash), Itoa(ck.Index), Itoa(ck.PoW),
    Itoa(ck.Difficulty), JSONString(ck.Data), JSONTime(ck.Timestamp)>>

(* MarshalJSON: parent_hash, then the fields of the alias in order. *)
MarshalJSON(ck) ==
  <<JSONBytes(GetParent(ck).Hash), JSONBytes(ck.Hash), Itoa(ck.Index),
    Itoa(ck.PoW), Itoa(ck.Difficulty), JSONString(ck.Data),
    JSONTime(ck.Timestamp)>>

Encode(ck) == MarshalJSON(ck)

(* sha256 over the encoding, collision-free. *)
Sha256(bytes) == <<"sha256", bytes>>

(* The hash stored while the chunk is encoded. *)
ClearedHash(ck) == <<>>

(* The sum GenerateHash computes: the chunk is encoded with Hash cleared. *)
HashSum(ck) == Sha256(Encode([ck EXCEPT !.Hash = ClearedHash(ck)]))

(* HashAfter, the old hash not put back. *)
HashAfterCleared(ck, save, sum) == IF save THEN sum ELSE ClearedHash(ck)

(* The hash GenerateHash leaves in the chunk. *)
HashAfter(ck, save, sum) == IF save THEN sum ELSE ck.Hash

(* re in IsValid: the hash is reproducible. *)
Reproducible(ck) == HashSum(ck) = ck.Hash

(* IsValid panics when the parent's nonce test is reached and panics. *)
IsValidPanics(ck) ==
  /\ ~IsGenesis(ck)
  /\ GetParent(ck).Index + 1 = ck.Index
  /\ ValidatePoWPanics(GetParent(ck))

ParentOk(ck) ==
  LET pck == GetParent(ck)
  IN  pck.Index + 1 = ck.Index /\ IsValidPoW(pck) /\ Reproducible(pck)

(* IsValid returns true. *)
IsValid(ck) ==
  LET pok == IsGenesis(ck) \/ ParentOk(ck)
      bok == IsMined(ck) /\ Reproducible(ck)
  IN  ~IsValidPanics(ck) /\ pok /\ bok

Children(c) == {d \in Ids : chunks[d].Parent = c}

(* History: a field of chunk c has been written. *)
Touched(c, mined) ==
  [d \in Ids |->
     IF d = c
     THEN [once |-> life[d].once \/ mined, mined |-> mined, hashed |-> FALSE,
           valid |-> FALSE]
     ELSE IF d \in Children(c) THEN [life[d] EXCEPT !.hashed = FALSE]
     ELSE life[d]]

Init ==
  /\ chunks = <<>>
  /\ pc = "idle"
  /\ cur = 0
  /\ pow = 0
  /\ call = NoCall
  /\ writes = 0
  /\ life = <<>>

(* NextIndex, the parent's index taken as it is. *)
NextIndexSame(parent) == IF parent # 0 THEN chunks[parent].Index ELSE 0

(* The index New assigns. *)
NextIndex(parent) == IF parent # 0 THEN chunks[parent].Index + 1 ELSE 0

New(parent, dif, data, now) ==
  /\ pc = "idle"
  /\ Len(chunks) < MaxChunks
  /\ chunks' = Append(chunks,
       [Parent |-> parent, Hash |-> <<>>, Index |-> NextIndex(parent),
        PoW |-> 0, Difficulty |-> dif, Data |-> data, Timestamp |-> now])
  /\ life' = Append(life, [once |-> FALSE, mined |-> FALSE, hashed |-> FALSE, valid |-> FALSE])
  /\ call' = NoCall
  /\ UNCHANGED <<pc, cur, pow, writes>>

(* MineFirst, the search resumed from the stored nonce. *)
MineFirstStored(ck) == ck.PoW

(* The candidate Mine starts from: the zero value of its named result. *)
MineFirst(ck) == 0

(* The test at the head of Mine's loop. *)
MineTest(ck, n) == ValidatePoW(ck, n)

(* Mine's loop from candidate n: the first candidate that passes the test, *)
(* or MaxNonce + 1 when none up to MaxNonce does (the loop is running on). *)
RECURSIVE MineLoop(_, _)
MineLoop(ck, n) ==
  IF n > MaxNonce THEN n
  ELSE IF MineTest(ck, n) THEN n
  ELSE MineLoop(ck, n + 1)

(* MineSaved, the candidate increased once more before it is saved. *)
MineSavedNext(n) == n + 1

(* The nonce Mine saves once the loop has ended at candidate n. *)
MineSaved(n) == n

(* Mine, its first test panicking. *)
MinePanic(c) ==
  /\ pc = "idle"
  /\ ValidatePoWPanics(chunks[c])
  /\ pc' = "panic"
  /\ cur' = c
  /\ pow' = MineFirst(chunks[c])
  /\ call' = NoCall
  /\ UNCHANGED <<chunks, writes, life>>

(* Mine, its loop still running after the candidates up to MaxNonce. *)
MineRunning(c) ==
  /\ pc = "idle"
  /\ ~ValidatePoWPanics(chunks[c])
  /\ MineLoop(chunks[c], MineFirst(chunks[c])) > MaxNonce
  /\ pc' = "mine"
  /\ cur' = c
  /\ pow' = MineLoop(chunks[c], MineFirst(chunks[c]))
  /\ call' = NoCall
  /\ UNCHANGED <<chunks, writes, life>>

(* Mine, solved: the nonce is saved in the chunk and returned. *)
Mine(c) ==
  /\ pc = "idle"
  /\ ~ValidatePoWPanics(chunks[c])
  /\ LET n == MineLoop(chunks[c], MineFirst(chunks[c]))
     IN  /\ n <= MaxNonce
         /\ chunks' = [chunks EXCEPT ![c].PoW = MineSaved(n)]
         /\ call' = [op |-> "Mine", ck |-> c, save |-> FALSE, sum |-> <<>>, pow |-> n]
  /\ life' = Touched(c, TRUE)
  /\ UNCHANGED <<pc, cur, pow, writes>>

(* History: GenerateHash(true) has stored sum in chunk c. *)
Committed(c, sum) ==
  [d \in Ids |->
     IF d = c
     THEN [life[d] EXCEPT !.hashed = TRUE,
                          !.valid = IsValid([chunks[c] EXCEPT !.Hash = sum])]
     ELSE IF d \in Children(c) THEN [life[d] EXCEPT !.hashed = FALSE]
     ELSE life[d]]

GenerateHash(c, save) ==
  /\ pc = "idle"
  /\ LET sum == HashSum(chunks[c])
     IN  /\ chunks' = [chunks EXCEPT ![c].Hash = HashAfter(chunks[c], save, sum)]
         /\ call' = [op |-> "GenerateHash", ck |-> c, save |-> save, sum |-> sum, pow |-> 0]
         /\ life' = IF save THEN Committed(c, sum) ELSE life
  /\ UNCHANGED <<pc, cur, pow, writes>>

(* A caller assigns an exported field of a chunk a different value. *)
Write(c, field, v) ==
  /\ pc = "idle"
  /\ writes < MaxWrites
  /\ chunks[c][field] # v
  /\ chunks' = [chunks EXCEPT ![c][field] = v]
  /\ life' = Touched(c, IF field = "PoW" THEN FALSE ELSE life[c].mined)
  /\ writes' = writes + 1
  /\ call' = NoCall
  /\ UNCHANGED <<pc, cur, pow>>

SetIndex(c, v) == Write(c, "Index", v)

SetPoW(c, v) == Write(c, "PoW", v)

SetDifficulty(c, v) == Write(c, "Difficulty", v)

SetData(c, v) == Write(c, "Data", v)

SetTimestamp(c, v) == Write(c, "Timestamp", v)

(* The calls of the package alone. *)
NextOps ==
  \/ \E parent \in {0} \cup Ids, dif \in Difficulties, data \in NewData, now \in NowValues :
       New(parent, dif, data, now)
  \/ \E c \in Ids : Mine(c)
  \/ \E c \in Ids : MinePanic(c)
  \/ \E c \in Ids : MineRunning(c)
  \/ \E c \in Ids, save \in BOOLEAN : GenerateHash(c, save)

(* The calls of the package and direct writes of the exported fields. *)
Next ==
  \/ NextOps
  \/ \E c \in Ids, v \in IndexValues : SetIndex(c, v)
  \/ \E c \in Ids, v \in PoWValues : SetPoW(c, v)
  \/ \E c \in Ids, v \in Difficulties : SetDifficulty(c, v)
  \/ \E c \in Ids, v \in DataValues : SetData(c, v)
  \/ \E c \in Ids, v \in TimeValues : SetTimestamp(c, v)

Spec == Init /\ [][Next]_vars

SpecOps == Init /\ [][NextOps]_vars

(***************************************************************************)
(* The claims.                                                             *)
(***************************************************************************)

(* C1: when Mine returns, the nonce it returned is the one stored in the   *)
(* chunk's PoW field, and ValidatePoW(chunk, chunk.PoW), that is           *)
(* IsValidPoW(chunk), is true in the state right after.                    *)
C1_MineStoresValidNonce ==
  call.op = "Mine" =>
    LET ck == chunks[call.ck]
    IN  /\ pc = "idle"
        /\ ck.PoW = call.pow
        /\ ~ValidatePoWPanics(ck)
        /\ ValidatePoW(ck, ck.PoW)
        /\ IsValidPoW(ck)

(* Mine has returned nonce 9 for a chunk whose parent holds nonce 3. *)
C1_Witness ==
  /\ call.op = "Mine"
  /\ call.pow = 9
  /\ ~IsGenesis(chunks[call.ck])
  /\ GetParent(chunks[call.ck]).PoW = 3

(* C2: for every chunk with difficulty 0, ValidatePoW returns true for     *)
(* every candidate nonce, so Mine, once called on it, has ended at its     *)
(* first test and returned 0.                                              *)
C2_ZeroDifficultyMinesZero ==
  \A c \in Ids :
    chunks[c].Difficulty = 0 =>
      /\ ~(pc = "mine" /\ cur = c)
      /\ (call.op = "Mine" /\ call.ck = c) => call.pow = 0
      /\ (cur = c \/ (call.op = "Mine" /\ call.ck = c))
           => \A n \in 0..MaxNonce : ValidatePoW(chunks[c], n)

(* C3: for a non-genesis chunk C that was mined by Mine and then hashed    *)
(* with GenerateHash(true), on a parent P that had been mined and hashed,  *)
(* nothing assigned since C was hashed: IsValid(C) is true if and only if  *)
(* C.Index = P.Index + 1, IsValidPoW(P) is true and GenerateHash(P, false) *)
(* equals P's Hash.                                                        *)
C3_ChainLink ==
  \A c \in Ids :
    LET ck == chunks[c]
    IN  (/\ ~IsGenesis(ck)
         /\ life[c].mined
         /\ life[c].hashed
         /\ life[ck.Parent].once
         /\ GetParent(ck).Hash # <<>>)
        => (IsValid(ck) <=> ParentOk(ck))

(* A step that assigns one encoded field of chunk c a different value. *)
FieldWritten(c) ==
  /\ writes' = writes + 1
  /\ c \in Ids
  /\ chunks'[c] # chunks[c]

(* C4: once a chunk has been mined and then hashed with GenerateHash(true), *)
(* assigning any one of Index, PoW, Difficulty, Data, Timestamp a different *)
(* value makes GenerateHash(chunk, false) differ from the stored Hash, and *)
(* IsValid(chunk) false.                                                   *)
C4_TamperDetected ==
  [][\A c \in Ids :
       (FieldWritten(c) /\ life[c].mined /\ life[c].hashed)
       => (~Reproducible(chunks[c]) /\ ~IsValid(chunks[c]))']_vars

(* C5: after GenerateHash(chunk, true), with no field of the chunk or of   *)
(* its parent assigned since, GenerateHash(chunk, false) returns the       *)
(* stored Hash, every time, and leaves the stored Hash as it is.           *)
C5_Returned ==
  /\ \A c \in Ids : life[c].hashed => HashSum(chunks[c]) = chunks[c].Hash
  /\ (call.op = "GenerateHash" /\ life[call.ck].hashed)
       => (call.sum = chunks[call.ck].Hash /\ call.sum # <<>>)

C5_Restored ==
  (call'.op = "GenerateHash" /\ ~call'.save) => chunks' = chunks

C5_HashRoundTrip == []C5_Returned /\ [][C5_Restored]_vars

(* A non-committing GenerateHash has returned on a hashed child chunk. *)
C5_Witness ==
  /\ call.op = "GenerateHash"
  /\ ~call.save
  /\ life[call.ck].hashed
  /\ ~IsGenesis(chunks[call.ck])
  /\ chunks[call.ck].PoW > 0

(* C6: for every chunk whose difficulty exceeds 64, ValidatePoW returns    *)
(* false for every candidate nonce without aborting, and Mine, once called *)
(* on it, runs on for ever; validation never ends in an error.             *)
C6_OversizedDifficultyNeverAborts ==
  /\ pc # "panic"
  /\ \A c \in Ids :
       (chunks[c].Difficulty > DigestHexLen /\ cur = c) =>
         /\ pc = "mine"
         /\ ~ValidatePoWPanics(chunks[c])
         /\ \A n \in 0..MaxNonce : ~ValidatePoW(chunks[c], n)

(* C7: under New, Mine and GenerateHash alone, a chunk without parent has  *)
(* Index 0 and a chunk with parent P has Index P.Index + 1; a chunk New    *)
(* has just made has PoW 0 and no Hash; and no call changes the Index,     *)
(* Difficulty, Data, Timestamp or Parent of a chunk.                       *)
C7_Indexed ==
  \A c \in Ids :
    chunks[c].Index = IF IsGenesis(chunks[c]) THEN 0 ELSE GetParent(chunks[c]).Index + 1

C7_Step ==
  /\ Len(chunks') >= Len(chunks)
  /\ Len(chunks') > Len(chunks) =>
       LET ck == chunks'[Len(chunks')]
       IN  ck.PoW = 0 /\ ck.Hash = <<>> /\ ~IsMined(ck)
  /\ \A c \in Ids :
       /\ chunks'[c].Index = chunks[c].Index
       /\ chunks'[c].Difficulty = chunks[c].Difficulty
       /\ chunks'[c].Data = chunks[c].Data
       /\ chunks'[c].Timestamp = chunks[c].Timestamp
       /\ chunks'[c].Parent = chunks[c].Parent

C7_IndexInvariant == []C7_Indexed /\ [][C7_Step]_vars

(* A chunk made on a parent has since been mined and hashed. *)
C7_Witness ==
  \E c \in Ids :
    /\ ~IsGenesis(chunks[c])
    /\ chunks[c].Index = 1
    /\ life[c].mined
    /\ life[c].hashed
    /\ chunks[c].PoW > 0

(* C8: the nonce Mine returns and stores is the least n >= 0 such that     *)
(* ValidatePoW(chunk, n) is true, whatever PoW the chunk held before.      *)
C8_MineLeastNonce ==
  call.op = "Mine" =>
    LET ck == chunks[call.ck]
    IN  /\ ck.PoW = call.pow
        /\ ValidatePoW(ck, call.pow)
        /\ \A n \in 0..MaxNonce : n < call.pow => ~ValidatePoW(ck, n)

(* Mine has returned on a chunk whose hash, stored after an earlier Mine,  *)
(* is still the hash of the chunk: the same nonce has been stored again.   *)
C8_Witness ==
  /\ call.op = "Mine"
  /\ call.pow > 0
  /\ chunks[call.ck].Hash # <<>>
  /\ Reproducible(chunks[call.ck])

(* C9: when the Hash of a parent P takes a new value, a child C whose      *)
(* stored Hash was the one GenerateHash(C, false) returns stops being so,  *)
(* and IsValid(C) is false; for a genesis chunk the parent hash that is    *)
(* encoded is the empty hash of the virtual parent.                        *)
C9_GenesisParentHash ==
  \A c \in Ids :
    IsGenesis(chunks[c]) => MarshalJSON(chunks[c])[1] = JSONBytes(<<>>)

C9_Step ==
  \A p \in Ids : \A c \in Children(p) :
    (/\ chunks'[p].Hash # chunks[p].Hash
     /\ chunks[c].Hash # <<>>
     /\ Reproducible(chunks[c]))
    => (~Reproducible(chunks[c]) /\ ~IsValid(chunks[c]))'

C10_ValidImpliesOwnPoW ==
  \A c \in Ids : IsValid(chunks[c]) => IsValidPoW(chunks[c])

====
